---- MODULE Spec2Model ----
(***************************************************************************)
(* Model of conway.cpp: Conway's Game of Life computed by an OpenGL        *)
(* compute shader on two ping-pong R8 textures and drawn every frame.      *)
(*                                                                         *)
(*   Spec          the whole program: constructor, initializeGrid, the     *)
(*                 frame loop of main (computeStep, renderFrame), cleanup  *)
(*   SpecKernel    one dispatch of the compute shader, its invocations     *)
(*                 running in every order                                  *)
(*   SpecRule      the compute shader applied to every 3x3 binary grid     *)
(*   SpecNeighbor  the shader's neighbour lookup on every small grid size  *)
(*   SpecPattern   computeStep repeated on a block, a blinker and a glider *)
(***************************************************************************)
EXTENDS Integers, Sequences, FiniteSets, TLC

(***************************************************************************)
(* Bounds. The program's grid is 2000 x 2000 with work groups of 16 x 16;  *)
(* the model keeps the code's formulas and scales the numbers down.        *)
(***************************************************************************)
WIDTH == 3
HEIGHT == 2
LocalSize == 2
MaxFrames == 2
MaxSeedLive == 2
MaxDim == 3
MaxStale == 0
KernelW == 2
KernelH == 2
PatternDim == 5
MaxSteps == 4

VARIABLES
    pc,                \* position of the control thread in main
    window,            \* GLFWwindow* window: "null", "valid" or "garbage"
    glLoaded,          \* glewInit succeeded: the GL entry points are loaded
    computeProgram,    \* TRUE iff the compute program linked
    renderProgram,     \* TRUE iff the render program linked
    activeProgram,     \* the GL context's current program
    imageUnits,        \* the GL context's image units 0 and 1 (glBindImageTexture)
    storeCount,        \* per position, the imageStore calls of the last dispatch
    seeded,            \* initialData: the grid initializeGrid generated
    textures,          \* textures[0..1]: the texture memory (image records)
    loadView,          \* per texture, the contents guaranteed visible to image loads
    fetchView,         \* per texture, the contents guaranteed visible to texture fetches
    currentTextureIdx, \* GLuint currentTextureIdx
    shouldClose,       \* the window's close flag (glfwWindowShouldClose)
    frame,             \* number of frames started by the loop of main
    drawn,             \* what the last glDrawArrays sampled, per pixel
    log,               \* diagnostics written to std::cerr
    pre,               \* textures and index on entry to the running computeStep
    stepErr,           \* glGetError() != GL_NO_ERROR in the last computeStep
    events,            \* GL/GLFW events of the frame in progress, in order
    cleanups,          \* number of times cleanup released the resources
    invDone,           \* invocations of the dispatch in flight that have run
    lastAccess,        \* textures loaded from and stored to by the invocation that ran last
    lookup             \* SpecNeighbor: the last neighbour lookup

vars == <<pc, window, glLoaded, computeProgram, renderProgram, activeProgram,
          imageUnits, storeCount, seeded, textures, loadView, fetchView,
          currentTextureIdx, shouldClose, frame, drawn, log, pre, stepErr,
          events, cleanups, invDone, lastAccess, lookup>>

(***************************************************************************)
(* Images. An R8 texture is a size and one byte per texel; a texture whose *)
(* allocation failed has no storage (size 0 x 0).                          *)
(***************************************************************************)
Pos(size) == (0 .. size[1] - 1) \X (0 .. size[2] - 1)

Image(size, data) == [size |-> size, data |-> data]

Fill(size, v) == Image(size, [p \in Pos(size) |-> v])

NoStorage == Image(<<0, 0>>, [p \in {} |-> 0])

GridSize == <<WIDTH, HEIGHT>>

\* Every image of the given size whose texels are drawn from vals.
Images(size, vals) == {Image(size, d) : d \in [Pos(size) -> vals]}

LiveCount(img) == Cardinality({p \in Pos(img.size) : img.data[p] = 255})

(***************************************************************************)
(* The compute shader (computeShaderSource).                               *)
(***************************************************************************)
imageSize(img) == img.size

\* imageLoad(...).r of an r8 image: the texel as a normalized float v/255,
\* kept as its numerator. A load outside the image returns 0.
imageLoad(img, p) == IF p \in Pos(img.size) THEN img.data[p] ELSE 0

\* x > 0.5 for a normalized float x = v/255.
GreaterThanHalf(v) == 2 * v > 255

\* imageStore of vec4(f, 0, 0, 1) to an r8 image, f in {0.0, 1.0}: the texel
\* becomes round(f * 255). A store outside the image is discarded.
imageStore(img, p, f) ==
    IF p \in Pos(img.size) THEN [img EXCEPT !.data[p] = f * 255] ELSE img

\* The % of GLSL on ints, as the hardware computes it (truncating division).
\* With a negative operand the result is undefined in GLSL.
GLSLMod(a, b) == IF a >= 0 THEN a % b ELSE -((-a) % b)

\* (pos + ivec2(dx, dy) + size) % size without the "+ size".
neighborPosNoBias(pos, d, size) ==
    <<GLSLMod(pos[1] + d[1], size[1]), GLSLMod(pos[2] + d[2], size[2])>>

\* ivec2 neighborPos = (pos + ivec2(dx, dy) + size) % size;
neighborPos(pos, d, size) ==
    <<GLSLMod(pos[1] + d[1] + size[1], size[1]),
      GLSLMod(pos[2] + d[2] + size[2], size[2])>>

\* The offsets <<dx, dy>> in the order of the two loops, (0,0) skipped.
Offsets ==
    << <<-1, -1>>, <<0, -1>>, <<1, -1>>,
       <<-1, 0>>,             <<1, 0>>,
       <<-1, 1>>,  <<0, 1>>,  <<1, 1>> >>

\* liveNeighbors after the first i iterations of the loops.
RECURSIVE SumLive(_, _, _)
SumLive(img, pos, i) ==
    IF i = 0 THEN 0
    ELSE SumLive(img, pos, i - 1)
         + (IF GreaterThanHalf(imageLoad(img, neighborPos(pos, Offsets[i], imageSize(img))))
            THEN 1 ELSE 0)

\* int liveNeighbors after the loops.
liveNeighbors(img, pos) == SumLive(img, pos, Len(Offsets))

\* nextState with a birth on two live neighbours as well.
nextStateBirthOnTwo(current, n) ==
    IF GreaterThanHalf(current)
    THEN (IF n = 2 \/ n = 3 THEN 1 ELSE 0)
    ELSE (IF n = 2 \/ n = 3 THEN 1 ELSE 0)

\* float nextState, as 0 or 1.
nextStateSurviveOnOne(current, n) ==
    IF GreaterThanHalf(current)
    THEN (IF n = 1 \/ n = 2 \/ n = 3 THEN 1 ELSE 0)
    ELSE (IF n = 3 THEN 1 ELSE 0)

nextState(current, n) ==
    IF GreaterThanHalf(current)
    THEN (IF n = 2 \/ n = 3 THEN 1 ELSE 0)
    ELSE (IF n = 3 THEN 1 ELSE 0)

\* The invocation reaches past the bounds guard.
InBounds(pos, size) == ~(pos[1] >= size[1] \/ pos[2] >= size[2])

\* The texels of the image bound to unit 0 (rd) that the invocation of main()
\* at gl_GlobalInvocationID.xy = pos loads.
KernelLoads(rd, pos) ==
    IF ~InBounds(pos, imageSize(rd)) THEN {}
    ELSE {pos} \cup {neighborPos(pos, Offsets[i], imageSize(rd)) : i \in 1 .. Len(Offsets)}

\* The texels of the image bound to unit 1 that the invocation stores to.
KernelStores(rd, pos) == IF ~InBounds(pos, imageSize(rd)) THEN {} ELSE {pos}

\* One invocation of main() at gl_GlobalInvocationID.xy = pos with the images
\* bound to units 0 (rd, read) and 1 (wr, written): the image bound to unit 1
\* afterwards.
KernelMain(rd, wr, pos) ==
    IF ~InBounds(pos, imageSize(rd)) THEN wr
    ELSE imageStore(wr, pos, nextState(imageLoad(rd, pos), liveNeighbors(rd, pos)))

\* No lookup made yet: the loops never use the offset (0, 0).
NoLookup == [size |-> <<1, 1>>, pos |-> <<0, 0>>, d |-> <<0, 0>>, at |-> <<0, 0>>]

(***************************************************************************)
(* The dispatch of computeStep.                                            *)
(***************************************************************************)
\* (n + 15) / 16 for work groups of 16.
numGroups(n) == (n + (LocalSize - 1)) \div LocalSize

numGroupsX == numGroups(WIDTH)

numGroupsY == numGroups(HEIGHT)

\* gl_GlobalInvocationID.xy of the invocations of a dispatch of gx x gy work
\* groups of LocalSize x LocalSize.
InvocationIDs(gx, gy) == (0 .. gx * LocalSize - 1) \X (0 .. gy * LocalSize - 1)

\* The invocations of glDispatchCompute(numGroupsX, numGroupsY, 1).
GlobalInvocationIDs == InvocationIDs(numGroupsX, numGroupsY)

\* The image units computeStep binds: unit 0 (read) and unit 1 (written).
ReadUnitAliased(idx) == 1 - idx

ReadUnit(idx) == idx

\* glBindImageTexture(1, textures[currentTextureIdx], ...): unit 1 bound to
\* the texture of unit 0.
WriteUnitAliased(idx) == idx

\* glBindImageTexture(1, textures[1 - currentTextureIdx], ...)
WriteUnit(idx) == 1 - idx

\* The image units of the context: nothing bound yet, or textures[read] on
\* unit 0 and textures[write] on unit 1.
NoImageUnits == [bound |-> FALSE, read |-> 0, write |-> 0]

BoundImageUnits(rd, wr) == [bound |-> TRUE, read |-> rd, write |-> wr]

\* currentTextureIdx = 1 - currentTextureIdx without the assignment.
FlipNot(idx) == idx

\* currentTextureIdx = 1 - currentTextureIdx
Flip(idx) == 1 - idx

\* Per position, the number of imageStore calls made to it by the invocations
\* in ids, each storing where KernelStores says.
StoreCounts(rd, ids) ==
    [p \in ids |-> Cardinality({id \in ids : p \in KernelStores(rd, id)})]

\* No invocation of ids has run.
NoStores(ids) == [p \in ids |-> 0]

\* The image bound to unit 1 after the invocations in ids have all run, each
\* loading from rd: a texel some invocation stores to holds what that
\* invocation stored, every other texel is as before. (SpecKernel runs the
\* invocations one at a time, in every order.)
RunInvocations(rd, wr, ids) ==
    Image(wr.size,
          [q \in Pos(wr.size) |->
             LET writers == {p \in ids : q \in KernelStores(rd, p)}
             IN  IF writers = {} THEN wr.data[q]
                 ELSE KernelMain(rd, wr, CHOOSE p \in writers : TRUE).data[q]])

(***************************************************************************)
(* Memory visibility. Image stores of a dispatch are incoherent: they are  *)
(* guaranteed visible to a later access only after a glMemoryBarrier whose *)
(* bits cover the kind of that access.                                     *)
(***************************************************************************)
\* glMemoryBarrier(GL_SHADER_IMAGE_ACCESS_BARRIER_BIT)
BarrierBits == {"SHADER_IMAGE_ACCESS"}

\* What an access of a kind whose guaranteed contents are view can return for
\* an image whose memory is mem: per texel, the guaranteed or the latest value.
\* The texels served from the guaranteed (older) contents are all those that
\* differ, or at most MaxStale of them.
Observable(mem, view) ==
    IF mem.size # view.size THEN {mem}
    ELSE LET differ == {p \in Pos(mem.size) : mem.data[p] # view.data[p]}
         IN  {Image(mem.size, [p \in Pos(mem.size) |->
                                 IF p \in old THEN view.data[p] ELSE mem.data[p]]) :
                old \in {o \in SUBSET differ : Cardinality(o) <= MaxStale \/ o = differ}}

(***************************************************************************)
(* The draw of renderFrame: glDrawArrays(GL_TRIANGLE_STRIP, 0, 4) through  *)
(* the vertex shader onto the WIDTH x HEIGHT viewport, sampled with        *)
(* GL_NEAREST. Window coordinates are kept doubled, so that the centre of  *)
(* pixel (x, y) is the integer point (2x + 1, 2y + 1).                     *)
(***************************************************************************)
VertexCount == 4

\* gl_VertexID of the vertices of the draw: first 0, count VertexCount.
VertexIDs == 0 .. VertexCount - 1

\* TexCoord = vec2((gl_VertexID & 1), (gl_VertexID >> 1))
TexCoord(i) == <<i % 2, i \div 2>>

\* gl_Position.xy without the "* 2.0 - 1.0".
ClipPositionUnscaled(i) == TexCoord(i)

\* gl_Position.xy = TexCoord * 2.0 - 1.0
ClipPosition(i) == <<TexCoord(i)[1] * 2 - 1, TexCoord(i)[2] * 2 - 1>>

\* GL_TRIANGLE_STRIP: vertices i, i + 1, i + 2 form a triangle.
StripTriangles == {<<i, i + 1, i + 2>> : i \in 0 .. VertexCount - 3}

\* The viewport transform of glViewport(0, 0, WIDTH, HEIGHT), doubled.
WindowPos(i) == <<(ClipPosition(i)[1] + 1) * WIDTH, (ClipPosition(i)[2] + 1) * HEIGHT>>

PixelCentre(p) == <<2 * p[1] + 1, 2 * p[2] + 1>>

\* The edge function of the rasterizer: twice the signed area of a, b, q.
Edge(a, b, q) == (b[1] - a[1]) * (q[2] - a[2]) - (b[2] - a[2]) * (q[1] - a[1])

\* The triangle t covers the centre of pixel p.
Covers(t, p) ==
    LET a == WindowPos(t[1])
        b == WindowPos(t[2])
        c == WindowPos(t[3])
        q == PixelCentre(p)
        e == <<Edge(b, c, q), Edge(c, a, q), Edge(a, b, q)>>
    IN  /\ Edge(a, b, c) # 0
        /\ \/ \A k \in 1 .. 3 : e[k] >= 0
           \/ \A k \in 1 .. 3 : e[k] <= 0

\* The texel a GL_NEAREST fetch returns at pixel p of triangle t: TexCoord
\* interpolated with the barycentric weights of the pixel centre, times the
\* texture size, rounded down.
TexelAt(t, p) ==
    LET a == WindowPos(t[1])
        b == WindowPos(t[2])
        c == WindowPos(t[3])
        q == PixelCentre(p)
        sign == IF Edge(a, b, c) < 0 THEN -1 ELSE 1
        area == sign * Edge(a, b, c)
        w == <<sign * Edge(b, c, q), sign * Edge(c, a, q), sign * Edge(a, b, q)>>
        num(k) == w[1] * TexCoord(t[1])[k] + w[2] * TexCoord(t[2])[k]
                  + w[3] * TexCoord(t[3])[k]
    IN  <<(num(1) * WIDTH) \div area, (num(2) * HEIGHT) \div area>>

\* No triangle covers the pixel: it keeps the colour of glClear.
Uncovered == <<-1, -1>>

NoCoverage == [p \in Pos(GridSize) |-> Uncovered]

\* Per pixel of the viewport, the texel the draw fetches.
PixelTexel ==
    [p \in Pos(GridSize) |->
       LET covering == {t \in StripTriangles : Covers(t, p)}
       IN  IF covering = {} THEN Uncovered
           ELSE TexelAt(CHOOSE t \in covering : TRUE, p)]

\* glClearColor(0.2f, 0.2f, 0.2f, 1.0f) as a byte.
ClearColor == 51

\* texture(gridTexture, TexCoord).r at every pixel of the viewport; a texture
\* without storage samples as 0.
Sampled(img) ==
    IF img.size = GridSize
    THEN Image(GridSize, [p \in Pos(GridSize) |->
                            IF PixelTexel[p] = Uncovered THEN ClearColor
                            ELSE imageLoad(img, PixelTexel[p])])
    ELSE Fill(GridSize, 0)

\* No draw has sampled anything in the frame in progress.
NotDrawn == [status |-> "none", image |-> NoStorage, texel |-> NoCoverage]

(***************************************************************************)
(* Inputs of the environment.                                              *)
(***************************************************************************)
\* Contents of a texture allocated by glTexImage2D(..., NULL): undefined.
UninitBytes == {0, 77, 200}

\* GLuint currentTextureIdx before the assignment of line 141: indeterminate.
UninitIdx == {0, 1, 7}

\* initialData: rand() % 2 ? 255 : 0 in every cell.
Seeds == {g \in Images(GridSize, {0, 255}) : LiveCount(g) <= MaxSeedLive}

\* isWindowOpen() without the test of the close flag.
WindowOpenIgnoresClose(w, closeFlag) == w # "null"

\* isWindowOpen(): window && !glfwWindowShouldClose(window).
WindowOpen(w, closeFlag) == w # "null" /\ ~closeFlag

\* The statements of one iteration of the loop of main, in the order of the
\* code, with the barrier issued after the index flip.
ProgramOrderFlipFirst ==
    <<"computeStep", "flip", "barrier", "renderFrame", "present", "poll", "isWindowOpen">>

\* The statements of one iteration of the loop of main, in the order of the
\* code: computeStep (dispatch, barrier, flip), renderFrame (draw, present,
\* poll) and the loop test.
ProgramOrder ==
    <<"computeStep", "barrier", "flip", "renderFrame", "present", "poll", "isWindowOpen">>

\* The statement after at.
After(at) ==
    LET i == CHOOSE j \in 1 .. Len(ProgramOrder) - 1 : ProgramOrder[j] = at
    IN  ProgramOrder[i + 1]

LoopPcs == {"computeStep", "barrier", "flip", "renderFrame", "present", "poll"}

Init ==
    /\ pc = "constructor"
    /\ window \in {"null", "garbage"}      \* indeterminate until assigned
    /\ glLoaded = FALSE
    /\ computeProgram = FALSE
    /\ renderProgram = FALSE
    /\ activeProgram = "none"
    /\ imageUnits = NoImageUnits
    /\ storeCount = NoStores(GlobalInvocationIDs)
    /\ seeded = NoStorage
    /\ textures = [i \in 0 .. 1 |-> NoStorage]
    /\ loadView = [i \in 0 .. 1 |-> NoStorage]
    /\ fetchView = [i \in 0 .. 1 |-> NoStorage]
    /\ currentTextureIdx \in UninitIdx     \* indeterminate until line 141
    /\ shouldClose = FALSE
    /\ frame = 0
    /\ drawn = NotDrawn
    /\ log = {}
    /\ pre = [idx |-> 0, textures |-> [i \in 0 .. 1 |-> NoStorage]]
    /\ stepErr = FALSE
    /\ events = <<>>
    /\ cleanups = 0
    /\ invDone = {}
    /\ lastAccess = [loads |-> {}, stores |-> {}]
    /\ lookup = NoLookup

harness == <<invDone, lastAccess, lookup>>

\* GridVisualizer(): glfwInit() fails.
CtorGlfwInitFails ==
    /\ pc = "constructor"
    /\ pc' = "initializeGrid"
    /\ log' = log \cup {"GLFW init failed"}
    /\ UNCHANGED <<window, glLoaded, computeProgram, renderProgram,
                   activeProgram, textures, loadView, fetchView,
                   currentTextureIdx, shouldClose, frame, drawn, pre, stepErr,
                   events, cleanups, imageUnits, storeCount, seeded, harness>>

\* GridVisualizer(): glfwCreateWindow returns NULL.
CtorWindowFails ==
    /\ pc = "constructor"
    /\ pc' = "initializeGrid"
    /\ window' = "null"
    /\ log' = log \cup {"Window creation failed"}
    /\ UNCHANGED <<glLoaded, computeProgram, renderProgram, activeProgram,
                   textures, loadView, fetchView, currentTextureIdx,
                   shouldClose, frame, drawn, pre, stepErr, events, cleanups,
                   imageUnits, storeCount, seeded, harness>>

\* GridVisualizer(): glewInit() fails.
CtorGlewFails ==
    /\ pc = "constructor"
    /\ pc' = "initializeGrid"
    /\ window' = "valid"
    /\ log' = log \cup {"GLEW init failed"}
    /\ UNCHANGED <<glLoaded, computeProgram, renderProgram, activeProgram,
                   textures, loadView, fetchView, currentTextureIdx,
                   shouldClose, frame, drawn, pre, stepErr, events, cleanups,
                   imageUnits, storeCount, seeded, harness>>

\* Diagnostics of createShader/createProgram/createComputeProgram for a build
\* that ends linked (how = "ok"), fails to compile or fails to link.
BuildLog(how, linkMessage) ==
    CASE how = "ok" -> {}
      [] how = "compile" -> {"Shader Error", linkMessage}
      [] how = "link" -> {linkMessage}

\* GridVisualizer(): the three initializations succeed; the rest of the
\* constructor runs to its end whatever the builds and allocations report.
\* An allocated texture starts with undefined contents u (those of
\* textures[0] are overwritten by initializeGrid before anything reads them).
CtorCompletes ==
    /\ pc = "constructor"
    /\ \E render \in {"ok", "compile", "link"}, compute \in {"ok", "compile", "link"},
          texErr \in SUBSET (0 .. 1), u \in UninitBytes :
        LET alloc == [i \in 0 .. 1 |-> IF i \in texErr THEN NoStorage
                                        ELSE Fill(GridSize, u)]
        IN  /\ window' = "valid"
            /\ glLoaded' = TRUE
            /\ renderProgram' = (render = "ok")
            /\ computeProgram' = (compute = "ok")
            /\ textures' = alloc
            /\ loadView' = alloc
            /\ fetchView' = alloc
            /\ currentTextureIdx' = 0
            /\ activeProgram' = IF render = "ok" THEN "render" ELSE activeProgram
            /\ log' = log \cup BuildLog(render, "Program Link Error")
                          \cup BuildLog(compute, "Compute Program Link Error")
                          \cup {"Texture creation error" : i \in texErr}
    /\ pc' = "initializeGrid"
    /\ UNCHANGED <<shouldClose, frame, drawn, pre, stepErr, events, cleanups,
                   imageUnits, storeCount, seeded, harness>>

\* initializeGrid(): the upload of the seed into textures[0] and the read-back.
\* Without a window there is no context and the GL calls do nothing; with the
\* entry points not loaded textures[0] names no texture.
initializeGrid ==
    /\ pc = "initializeGrid"
    /\ pc' = "isWindowOpen"
    /\ \E seed \in Seeds :
         /\ seeded' = seed
         /\ IF window = "valid" /\ glLoaded
            THEN LET stored == textures[0].size = GridSize
                     up == IF stored THEN seed ELSE textures[0]
                 IN  /\ textures' = [textures EXCEPT ![0] = up]
                     /\ loadView' = [loadView EXCEPT ![0] = up]
                     /\ fetchView' = [fetchView EXCEPT ![0] = up]
                     \* glGetError also returns the error glUseProgram left at line 146
                     /\ log' = IF stored /\ renderProgram THEN log
                               ELSE log \cup {"Texture upload error"}
            ELSE /\ log' = IF window = "valid" THEN log \cup {"Texture upload error"}
                           ELSE log
                 /\ UNCHANGED <<textures, loadView, fetchView>>
    /\ UNCHANGED <<window, glLoaded, computeProgram, renderProgram,
                   activeProgram, currentTextureIdx, shouldClose, frame, drawn,
                   pre, stepErr, events, cleanups, imageUnits, storeCount,
                   harness>>

\* while (viz.isWindowOpen()): window && !glfwWindowShouldClose(window).
\* glfwWindowShouldClose returns 0 while GLFW is not initialized.
isWindowOpen ==
    /\ pc = "isWindowOpen"
    /\ IF WindowOpen(window, shouldClose)
       THEN /\ frame < MaxFrames
            /\ frame' = frame + 1
            /\ pc' = "computeStep"
       ELSE /\ pc' = "cleanup"
            /\ UNCHANGED frame
    /\ events' = <<>>
    /\ drawn' = NotDrawn
    /\ UNCHANGED <<window, glLoaded, computeProgram, renderProgram,
                   activeProgram, textures, loadView, fetchView,
                   currentTextureIdx, shouldClose, log, pre, stepErr, cleanups,
                   imageUnits, storeCount, seeded, harness>>

\* computeStep() called with the GL entry points not loaded: glUseProgram is a
\* null function pointer.
computeStepUnloaded ==
    /\ pc = "computeStep"
    /\ ~glLoaded
    /\ pc' = "crashed"
    /\ UNCHANGED <<window, glLoaded, computeProgram, renderProgram,
                   activeProgram, textures, loadView, fetchView,
                   currentTextureIdx, shouldClose, frame, drawn, log, pre,
                   stepErr, events, cleanups, imageUnits, storeCount, seeded,
                   harness>>

\* computeStep(), lines 183-195: glUseProgram, the two image bindings,
\* glDispatchCompute and the error check. A command that raises an error is
\* ignored by GL; backendError is an error raised by the dispatch itself.
computeStepDispatch ==
    /\ pc = "computeStep"
    /\ glLoaded
    /\ \E backendError \in BOOLEAN :
        LET program == IF computeProgram THEN "compute" ELSE activeProgram
            err == program # "compute" \/ backendError
            rd == ReadUnit(currentTextureIdx)
            wr == WriteUnit(currentTextureIdx)
        IN  /\ activeProgram' = program
            /\ imageUnits' = BoundImageUnits(rd, wr)
            /\ stepErr' = err
            /\ storeCount' = IF err THEN NoStores(GlobalInvocationIDs)
                             ELSE StoreCounts(loadView[rd], GlobalInvocationIDs)
            /\ textures' = IF err THEN textures
                           ELSE [textures EXCEPT ![wr] =
                                   RunInvocations(loadView[rd], textures[wr],
                                                  GlobalInvocationIDs)]
            /\ log' = IF err THEN log \cup {"Error after glDispatchCompute"} ELSE log
    /\ pre' = [idx |-> currentTextureIdx, textures |-> textures]
    /\ events' = Append(events, "dispatch")
    /\ pc' = After(pc)
    /\ UNCHANGED <<window, glLoaded, computeProgram, renderProgram, loadView,
                   fetchView, currentTextureIdx, shouldClose, frame, drawn,
                   cleanups, seeded, harness>>

\* computeStep(), line 197: glMemoryBarrier.
computeStepBarrier ==
    /\ pc = "barrier"
    /\ loadView' = [i \in 0 .. 1 |-> IF "SHADER_IMAGE_ACCESS" \in BarrierBits
                                      THEN textures[i] ELSE loadView[i]]
    /\ fetchView' = [i \in 0 .. 1 |-> IF "TEXTURE_FETCH" \in BarrierBits
                                       THEN textures[i] ELSE fetchView[i]]
    /\ events' = Append(events, "barrier")
    /\ pc' = After(pc)
    /\ UNCHANGED <<window, glLoaded, computeProgram, renderProgram,
                   activeProgram, textures, currentTextureIdx, shouldClose,
                   frame, drawn, log, pre, stepErr, cleanups, imageUnits,
                   storeCount, seeded, harness>>

\* computeStep(), line 198: currentTextureIdx = 1 - currentTextureIdx.
computeStepFlip ==
    /\ pc = "flip"
    /\ currentTextureIdx' = Flip(currentTextureIdx)
    /\ events' = Append(events, "flip")
    /\ pc' = After(pc)
    /\ UNCHANGED <<window, glLoaded, computeProgram, renderProgram,
                   activeProgram, textures, loadView, fetchView, shouldClose,
                   frame, drawn, log, pre, stepErr, cleanups, imageUnits,
                   storeCount, seeded, harness>>

\* renderFrame(), lines 202-232: glUseProgram(renderProgram), the texture
\* binding and glDrawArrays. With no linked render program current the
\* fragments are undefined. (The early return of line 202 needs a null
\* window, with which the loop of main is never entered.)
renderFrameDraw ==
    /\ pc = "renderFrame"
    /\ window # "null"
    /\ LET program == IF renderProgram THEN "render" ELSE activeProgram
       IN  /\ activeProgram' = program
           /\ log' = IF renderProgram THEN log
                     ELSE log \cup {"Error after glUseProgram",
                                    "gridTexture uniform not found"}
           /\ IF program = "render"
              THEN \E seen \in Observable(textures[currentTextureIdx],
                                          fetchView[currentTextureIdx]) :
                     drawn' = [status |-> "sampled", image |-> Sampled(seen),
                               texel |-> PixelTexel]
              ELSE drawn' = [status |-> "undefined", image |-> NoStorage,
                             texel |-> NoCoverage]
    /\ events' = Append(events, "draw")
    /\ pc' = After(pc)
    /\ UNCHANGED <<window, glLoaded, computeProgram, renderProgram, textures,
                   loadView, fetchView, currentTextureIdx, shouldClose, frame,
                   pre, stepErr, cleanups, imageUnits, storeCount, seeded,
                   harness>>

\* renderFrame(), line 246: glfwSwapBuffers(window).
renderFramePresent ==
    /\ pc = "present"
    /\ events' = Append(events, "present")
    /\ pc' = After(pc)
    /\ UNCHANGED <<window, glLoaded, computeProgram, renderProgram,
                   activeProgram, textures, loadView, fetchView,
                   currentTextureIdx, shouldClose, frame, drawn, log, pre,
                   stepErr, cleanups, imageUnits, storeCount, seeded, harness>>

\* renderFrame(), line 247: glfwPollEvents() delivers a close request or not.
renderFramePoll ==
    /\ pc = "poll"
    /\ \E closeRequested \in BOOLEAN : shouldClose' = (shouldClose \/ closeRequested)
    /\ events' = Append(events, "poll")
    /\ pc' = After(pc)
    /\ UNCHANGED <<window, glLoaded, computeProgram, renderProgram,
                   activeProgram, textures, loadView, fetchView,
                   currentTextureIdx, frame, drawn, log, pre, stepErr,
                   cleanups, imageUnits, storeCount, seeded, harness>>

\* cleanup() and the return of main.
cleanup ==
    /\ pc = "cleanup"
    /\ cleanups' = IF window # "null" THEN cleanups + 1 ELSE cleanups
    /\ pc' = "done"
    /\ UNCHANGED <<window, glLoaded, computeProgram, renderProgram,
                   activeProgram, imageUnits, storeCount, seeded, textures,
                   loadView, fetchView, currentTextureIdx, shouldClose, frame,
                   drawn, log, pre, stepErr, events, harness>>

Next ==
    \/ CtorGlfwInitFails
    \/ CtorWindowFails
    \/ CtorGlewFails
    \/ CtorCompletes
    \/ initializeGrid
    \/ isWindowOpen
    \/ computeStepUnloaded
    \/ computeStepDispatch
    \/ computeStepBarrier
    \/ computeStepFlip
    \/ renderFrameDraw
    \/ renderFramePresent
    \/ renderFramePoll
    \/ cleanup

Spec == Init /\ [][Next]_vars

(***************************************************************************)
(* SpecKernel: one dispatch on a KernelW x KernelH grid, the invocations   *)
(* running one at a time in every order, on the texture memory itself.     *)
(***************************************************************************)
KernelSize == <<KernelW, KernelH>>

KernelInvocationIDs == InvocationIDs(numGroups(KernelW), numGroups(KernelH))

\* The state of the program outside the fields a harness sets.
Idle ==
    /\ window = "valid"
    /\ glLoaded = TRUE
    /\ computeProgram = TRUE
    /\ renderProgram = TRUE
    /\ activeProgram = "compute"
    /\ shouldClose = FALSE
    /\ frame = 0
    /\ drawn = NotDrawn
    /\ log = {}
    /\ stepErr = FALSE
    /\ events = <<>>
    /\ cleanups = 0
    /\ invDone = {}
    /\ lastAccess = [loads |-> {}, stores |-> {}]
    /\ lookup = NoLookup

InitKernel ==
    /\ pc = "dispatching"
    /\ currentTextureIdx \in 0 .. 1
    /\ \E seed \in {g \in Images(KernelSize, {0, 255}) : LiveCount(g) <= MaxSeedLive} :
         /\ seeded = seed
         /\ textures = [i \in 0 .. 1 |-> IF i = currentTextureIdx THEN seed
                                         ELSE Fill(KernelSize, 77)]
    /\ loadView = textures
    /\ fetchView = textures
    /\ pre = [idx |-> currentTextureIdx, textures |-> textures]
    /\ imageUnits = BoundImageUnits(ReadUnit(currentTextureIdx), WriteUnit(currentTextureIdx))
    /\ storeCount = NoStores(KernelInvocationIDs)
    /\ Idle

\* One invocation of the dispatch runs main().
KernelInvoke ==
    /\ pc = "dispatching"
    /\ \E p \in KernelInvocationIDs \ invDone :
        LET rd == ReadUnit(currentTextureIdx)
            wr == WriteUnit(currentTextureIdx)
        IN  /\ textures' = [textures EXCEPT ![wr] = KernelMain(textures[rd], textures[wr], p)]
            /\ lastAccess' = [loads  |-> {rd : q \in KernelLoads(textures[rd], p)},
                              stores |-> {wr : q \in KernelStores(textures[rd], p)}]
            /\ storeCount' = [q \in KernelInvocationIDs |->
                                storeCount[q] + (IF q \in KernelStores(textures[rd], p)
                                                 THEN 1 ELSE 0)]
            /\ invDone' = invDone \cup {p}
    /\ UNCHANGED <<pc, window, glLoaded, computeProgram, renderProgram,
                   activeProgram, loadView, fetchView, currentTextureIdx,
                   shouldClose, frame, drawn, log, pre, stepErr, events,
                   cleanups, imageUnits, seeded, lookup>>

NextKernel == KernelInvoke

SpecKernel == InitKernel /\ [][NextKernel]_vars

(***************************************************************************)
(* SpecRule: the dispatch of computeStep on every binary 3 x 3 grid, where *)
(* the eight neighbours of a cell are eight different cells.               *)
(***************************************************************************)
RuleSize == <<3, 3>>

InitRule ==
    /\ pc = "rule"
    /\ currentTextureIdx \in 0 .. 1
    /\ \E g \in Images(RuleSize, {0, 255}) :
         /\ seeded = g
         /\ textures = [i \in 0 .. 1 |-> IF i = currentTextureIdx THEN g
                                         ELSE Fill(RuleSize, 77)]
    /\ loadView = textures
    /\ fetchView = textures
    /\ pre = [idx |-> currentTextureIdx, textures |-> textures]
    /\ imageUnits = NoImageUnits
    /\ storeCount = NoStores(InvocationIDs(numGroups(RuleSize[1]), numGroups(RuleSize[2])))
    /\ Idle

\* The dispatch of computeStep on the grid.
RuleDispatch ==
    /\ pc = "rule"
    /\ LET rd == ReadUnit(currentTextureIdx)
           wr == WriteUnit(currentTextureIdx)
           ids == InvocationIDs(numGroups(RuleSize[1]), numGroups(RuleSize[2]))
       IN  /\ imageUnits' = BoundImageUnits(rd, wr)
           /\ storeCount' = StoreCounts(loadView[rd], ids)
           /\ textures' = [textures EXCEPT ![wr] =
                             RunInvocations(loadView[rd], textures[wr], ids)]
    /\ pc' = "ruleDone"
    /\ UNCHANGED <<window, glLoaded, computeProgram, renderProgram,
                   activeProgram, loadView, fetchView, currentTextureIdx,
                   shouldClose, frame, drawn, log, pre, stepErr, events,
                   cleanups, seeded, harness>>

NextRule == RuleDispatch

SpecRule == InitRule /\ [][NextRule]_vars

(***************************************************************************)
(* SpecNeighbor: the neighbour lookup of the shader for every grid size up *)
(* to MaxDim x MaxDim, every cell and every offset of the loops.           *)
(***************************************************************************)
InitNeighbor ==
    /\ pc = "lookup"
    /\ currentTextureIdx = 0
    /\ textures = [i \in 0 .. 1 |-> NoStorage]
    /\ loadView = textures
    /\ fetchView = textures
    /\ pre = [idx |-> 0, textures |-> textures]
    /\ imageUnits = NoImageUnits
    /\ storeCount = NoStores({})
    /\ seeded = NoStorage
    /\ Idle

\* ivec2 neighborPos = (pos + ivec2(dx, dy) + size) % size for one cell of one
\* grid and one iteration of the loops.
NeighborLookup ==
    /\ pc = "lookup"
    /\ \E w \in 1 .. MaxDim, h \in 1 .. MaxDim :
       \E p \in Pos(<<w, h>>), i \in 1 .. Len(Offsets) :
         lookup' = [size |-> <<w, h>>, pos |-> p, d |-> Offsets[i],
                    at |-> neighborPos(p, Offsets[i], <<w, h>>)]
    /\ UNCHANGED <<pc, window, glLoaded, computeProgram, renderProgram,
                   activeProgram, textures, loadView, fetchView,
                   currentTextureIdx, shouldClose, frame, drawn, log, pre,
                   stepErr, events, cleanups, imageUnits, storeCount, seeded,
                   invDone, lastAccess>>

NextNeighbor == NeighborLookup

SpecNeighbor == InitNeighbor /\ [][NextNeighbor]_vars

(***************************************************************************)
(* SpecPattern: computeStep called MaxSteps times on a PatternDim x        *)
(* PatternDim grid seeded with one of the classic patterns, at every       *)
(* position of the torus.                                                  *)
(***************************************************************************)
PatternSize == <<PatternDim, PatternDim>>

PatternInvocationIDs == InvocationIDs(numGroups(PatternDim), numGroups(PatternDim))

\* Cells of the patterns, relative to their origin (x to the right, y down);
\* the glider is the one that heads towards +x, +y.
Block == {<<0, 0>>, <<1, 0>>, <<0, 1>>, <<1, 1>>}

BlinkerH == {<<0, 0>>, <<1, 0>>, <<2, 0>>}

BlinkerV == {<<0, 0>>, <<0, 1>>, <<0, 2>>}

Glider == {<<1, 0>>, <<2, 1>>, <<0, 2>>, <<1, 2>>, <<2, 2>>}

\* The cells moved by d on the torus.
Translate(cells, d, size) ==
    {<<(c[1] + d[1]) % size[1], (c[2] + d[2]) % size[2]>> : c \in cells}

\* initialData with exactly the given cells ALIVE (255) and the others DEAD (0).
Pattern(cells, size) == Image(size, [p \in Pos(size) |-> IF p \in cells THEN 255 ELSE 0])

\* The grid holds the shape at some position of the torus and nothing else.
IsShape(img, shape) ==
    \E o \in Pos(img.size) : img = Pattern(Translate(shape, o, img.size), img.size)

InitPattern ==
    /\ pc = "pattern"
    /\ currentTextureIdx \in 0 .. 1
    /\ \E shape \in {Block, BlinkerH, BlinkerV, Glider}, o \in Pos(PatternSize) :
         /\ seeded = Pattern(Translate(shape, o, PatternSize), PatternSize)
         /\ textures = [i \in 0 .. 1 |-> IF i = currentTextureIdx THEN seeded
                                         ELSE Fill(PatternSize, 77)]
    /\ loadView = textures
    /\ fetchView = textures
    /\ pre = [idx |-> currentTextureIdx, textures |-> textures]
    /\ imageUnits = NoImageUnits
    /\ storeCount = NoStores(PatternInvocationIDs)
    /\ Idle

\* One call of computeStep() that raises no error: the bindings, the dispatch,
\* the barrier and the index flip.
PatternStep ==
    /\ pc = "pattern"
    /\ frame < MaxSteps
    /\ LET rd == ReadUnit(currentTextureIdx)
           wr == WriteUnit(currentTextureIdx)
           after == [textures EXCEPT ![wr] =
                       RunInvocations(loadView[rd], textures[wr], PatternInvocationIDs)]
       IN  /\ imageUnits' = BoundImageUnits(rd, wr)
           /\ storeCount' = StoreCounts(loadView[rd], PatternInvocationIDs)
           /\ textures' = after
           /\ loadView' = IF "SHADER_IMAGE_ACCESS" \in BarrierBits THEN after ELSE loadView
           /\ fetchView' = IF "TEXTURE_FETCH" \in BarrierBits THEN after ELSE fetchView
    /\ pre' = [idx |-> currentTextureIdx, textures |-> textures]
    /\ currentTextureIdx' = Flip(currentTextureIdx)
    /\ frame' = frame + 1
    /\ UNCHANGED <<pc, window, glLoaded, computeProgram, renderProgram,
                   activeProgram, seeded, shouldClose, drawn, log, stepErr,
                   events, cleanups, harness>>

NextPattern == PatternStep

SpecPattern == InitPattern /\ [][NextPattern]_vars

(***************************************************************************)
(* The Game of Life on a torus, as the specification states it: a plain    *)
(* reference the code is compared with.                                    *)
(***************************************************************************)
\* A stored intensity read back: ALIVE iff above the midpoint.
RefAlive(v) == v >= 128

RefOffsets == ({-1, 0, 1} \X {-1, 0, 1}) \ {<<0, 0>>}

\* (p + (dx, dy)) mod (W, H)
RefWrap(p, d, size) == <<(p[1] + d[1]) % size[1], (p[2] + d[2]) % size[2]>>

RefLiveNeighbors(img, p) ==
    Cardinality({d \in RefOffsets : RefAlive(img.data[RefWrap(p, d, img.size)])})

RefNext(img, p) ==
    LET n == RefLiveNeighbors(img, p)
    IN  IF \/ RefAlive(img.data[p]) /\ n \in {2, 3}
           \/ ~RefAlive(img.data[p]) /\ n = 3
        THEN 255 ELSE 0

RefNextGen(img) == Image(img.size, [p \in Pos(img.size) |-> RefNext(img, p)])

\* The rule applied n times.
RECURSIVE RefIterate(_, _)
RefIterate(img, n) == IF n = 0 THEN img ELSE RefNextGen(RefIterate(img, n - 1))

(***************************************************************************)
(* Claims.                                                                 *)
(***************************************************************************)

\* C1 (SpecRule): after the dispatch of one computeStep the writable grid
\* holds at every cell p ALIVE (255) iff the current grid has p ALIVE with 2
\* or 3 live neighbours or p DEAD with exactly 3, and DEAD (0) otherwise. On
\* the 3 x 3 torus the grids cover every count 0..8 for both current states.
C1_RuleTable ==
    pc = "ruleDone" =>
        \A p \in Pos(RuleSize) :
            LET cur == textures[currentTextureIdx]
                n == RefLiveNeighbors(cur, p)
                written == textures[1 - currentTextureIdx].data[p]
            IN  /\ (cur.data[p] = 255 /\ n \in {2, 3}) => written = 255
                /\ (cur.data[p] = 255 /\ n \notin {2, 3}) => written = 0
                /\ (cur.data[p] = 0 /\ n = 3) => written = 255
                /\ (cur.data[p] = 0 /\ n # 3) => written = 0

\* C1 witness: a dispatch that wrote a birth (DEAD with 3 live neighbours), a
\* survival (ALIVE with 2) and left another DEAD cell DEAD.
C1_Witness ==
    /\ pc = "ruleDone"
    /\ LET cur == textures[currentTextureIdx]
           nxt == textures[1 - currentTextureIdx]
       IN  /\ \E p \in Pos(RuleSize) :
                cur.data[p] = 0 /\ RefLiveNeighbors(cur, p) = 3 /\ nxt.data[p] = 255
           /\ \E p \in Pos(RuleSize) :
                cur.data[p] = 255 /\ RefLiveNeighbors(cur, p) = 2 /\ nxt.data[p] = 255

\* C2 (SpecNeighbor): for a W x H grid, a cell (x, y) and an offset (dx, dy) of
\* the loops, the position the shader reads is ((x+dx) mod W, (y+dy) mod H),
\* inside the grid; from (0, 0) the offsets (-1,-1), (-1,0), (0,-1) reach
\* (W-1,H-1), (W-1,0), (0,H-1), and from (W-1,H-1) the offset (1,1) reaches (0,0).
C2_Toroidal ==
    lookup.d # <<0, 0>> =>
        LET W == lookup.size[1]
            H == lookup.size[2]
            x == lookup.pos[1]
            y == lookup.pos[2]
            dx == lookup.d[1]
            dy == lookup.d[2]
        IN  /\ lookup.at = <<(x + dx) % W, (y + dy) % H>>
            /\ lookup.at \in Pos(lookup.size)
            /\ (lookup.pos = <<0, 0>> /\ lookup.d = <<-1, -1>>) => lookup.at = <<W - 1, H - 1>>
            /\ (lookup.pos = <<0, 0>> /\ lookup.d = <<-1, 0>>) => lookup.at = <<W - 1, 0>>
            /\ (lookup.pos = <<0, 0>> /\ lookup.d = <<0, -1>>) => lookup.at = <<0, H - 1>>
            /\ (lookup.pos = <<W - 1, H - 1>> /\ lookup.d = <<1, 1>>) => lookup.at = <<0, 0>>

\* C2 witness: the diagonal lookup from the corner (0, 0) of a grid with more
\* than one column and row, which lands on the opposite corner.
C2_Witness ==
    /\ lookup.size[1] > 1
    /\ lookup.size[2] > 1
    /\ lookup.pos = <<0, 0>>
    /\ lookup.d = <<-1, -1>>
    /\ lookup.at = <<lookup.size[1] - 1, lookup.size[2] - 1>>

\* C10 (SpecKernel): in every order of the invocations of a dispatch, each
\* invocation loads only from the current grid and stores only to the writable
\* grid; at every point the cells whose invocation has run hold the next
\* generation of the current grid, the other cells of the writable grid and
\* the whole current grid are untouched; so every order ends with the same
\* writable grid.
C10_OrderIndependent ==
    LET rd == pre.idx
        wr == 1 - pre.idx
        cur == pre.textures[rd]
    IN  /\ lastAccess.loads \subseteq {rd}
        /\ lastAccess.stores \subseteq {wr}
        /\ textures[rd] = cur
        /\ \A p \in Pos(KernelSize) :
             textures[wr].data[p] = IF p \in invDone THEN RefNext(cur, p)
                                    ELSE pre.textures[wr].data[p]
        /\ invDone = KernelInvocationIDs => textures[wr] = RefNextGen(cur)

\* C10 witness: a dispatch whose invocations have all run and which wrote the
\* death of a cell, the last invocation having loaded and stored.
C10_Witness ==
    /\ pc = "dispatching"
    /\ invDone = KernelInvocationIDs
    /\ lastAccess.loads = {pre.idx}
    /\ lastAccess.stores = {1 - pre.idx}
    /\ \E p \in Pos(KernelSize) :
         pre.textures[pre.idx].data[p] = 255 /\ textures[1 - pre.idx].data[p] = 0

\* The constructor left a window, a context with loaded entry points and two
\* allocated grids.
Initialized ==
    /\ window = "valid"
    /\ glLoaded
    /\ \A i \in 0 .. 1 : textures[i].size = GridSize

\* C3 (Spec): after a computeStep whose dispatch raised an error, a diagnostic
\* is logged, both grids are unchanged and the current grid is the one that
\* was current before the call.
C3_FailedStepIsNoOp ==
    (pc \in {"renderFrame", "present", "poll"} /\ stepErr) =>
        /\ "Error after glDispatchCompute" \in log
        /\ textures = pre.textures
        /\ currentTextureIdx = pre.idx

\* C4 (Spec): after a computeStep whose dispatch raised no error on two
\* allocated grids, the grid that was writable holds the next generation of the
\* grid that was current and is now textures[currentTextureIdx]; the grid that
\* was current is now textures[1 - currentTextureIdx].
C4_BufferRoles ==
    (pc \in {"renderFrame", "present", "poll"} /\ ~stepErr /\ Initialized) =>
        /\ currentTextureIdx = 1 - pre.idx
        /\ textures[currentTextureIdx] = RefNextGen(pre.textures[pre.idx])
        /\ textures[1 - currentTextureIdx] = pre.textures[pre.idx]

\* C4 witness: the second step of a run has completed without error, computed
\* from a generation with live cells a generation that differs from it, and
\* made textures[0] current again.
C4_Witness ==
    /\ pc = "renderFrame"
    /\ frame = 2
    /\ ~stepErr
    /\ Initialized
    /\ currentTextureIdx = 0
    /\ LiveCount(pre.textures[pre.idx]) > 0
    /\ textures[currentTextureIdx] # pre.textures[pre.idx]

\* C5 (Spec): a draw samples, at every pixel, the value the memory of the
\* current grid holds: no value older than the last step's writes.
C5_DrawSeesStepWrites ==
    drawn.status = "sampled" => drawn.image = Sampled(textures[currentTextureIdx])

FatalInitDiagnostics ==
    {"GLFW init failed", "Window creation failed", "GLEW init failed",
     "Texture creation error"}

\* C6 (Spec): once the constructor has reported a fatal initialization error
\* the frame loop is never entered: no computeStep, no renderFrame.
C6_FatalInitStopsBeforeLoop ==
    log \cap FatalInitDiagnostics # {} => (frame = 0 /\ pc \notin LoopPcs)

\* C7 (Spec): when the compute program failed to build no frame issues a
\* dispatch, and when the render program failed to build no frame issues a draw.
C7_FailedPipelineUnused ==
    (glLoaded /\ pc # "constructor") =>
        /\ ~computeProgram => \A i \in 1 .. Len(events) : events[i] # "dispatch"
        /\ ~renderProgram => \A i \in 1 .. Len(events) : events[i] # "draw"

\* C8 (Spec): with the window and the context initialized, the driver is
\* RUNNING (in the loop) or CLOSED (cleanup, done): once the close flag is set
\* no step or draw follows; CLOSED is never left; cleanup releases the
\* resources exactly once; and while the close flag is not set the driver
\* stays RUNNING.
C8_FrameDriver ==
    [][(window = "valid" /\ glLoaded) =>
          /\ shouldClose => pc' \notin LoopPcs
          /\ pc \in {"cleanup", "done"} => pc' \in {"cleanup", "done"}
          /\ (pc \in LoopPcs \cup {"isWindowOpen"} /\ ~shouldClose')
                => pc' \in LoopPcs \cup {"isWindowOpen"}
          /\ cleanups' <= 1
          /\ pc' = "done" => cleanups' = 1]_vars

\* C8 witness: a run that drew frames, saw the close request and tore down.
C8_Witness ==
    /\ pc = "done"
    /\ window = "valid"
    /\ glLoaded
    /\ shouldClose
    /\ frame >= 1
    /\ cleanups = 1

FrameOrder == <<"dispatch", "barrier", "flip", "draw", "present", "poll">>

\* C9 (Spec): the events of the frame in progress are always a prefix of
\* dispatch, barrier, flip, draw, present, poll, each at most once, as far as
\* the control thread has come; at the loop test after a frame they are
\* exactly these six.
C9_FrameOrder ==
    /\ pc = "computeStep" => events = <<>>
    /\ pc = "barrier" => events = SubSeq(FrameOrder, 1, 1)
    /\ pc = "flip" => events = SubSeq(FrameOrder, 1, 2)
    /\ pc = "renderFrame" => events = SubSeq(FrameOrder, 1, 3)
    /\ pc = "present" => events = SubSeq(FrameOrder, 1, 4)
    /\ pc = "poll" => events = SubSeq(FrameOrder, 1, 5)
    /\ (pc = "isWindowOpen" /\ frame > 0) => events = FrameOrder

\* C9 witness: the loop test after the second complete frame.
C9_Witness ==
    /\ pc = "isWindowOpen"
    /\ frame = 2
    /\ ~shouldClose
    /\ events = FrameOrder

\* The number of swaps the control thread has made since line 141.
Swaps == IF pc \in {"computeStep", "barrier", "flip"} THEN frame - 1 ELSE frame

\* C11 (Spec): once the constructor has run line 141, in every state
\* currentTextureIdx is 0 or 1 and the image units computeStep bound name the
\* two different grids (read on unit 0, the other on unit 1); the swap sets
\* currentTextureIdx to 1 - currentTextureIdx and changes no texture, nothing
\* else changes the index, and after an even number of swaps the index is the
\* original 0 again.
C11_PingPong ==
    [][glLoaded' =>
          /\ currentTextureIdx' \in {0, 1}
          /\ imageUnits'.bound =>
                /\ imageUnits'.read \in {0, 1}
                /\ imageUnits'.write = 1 - imageUnits'.read
                /\ imageUnits'.read # imageUnits'.write
          /\ pc' = "barrier" => imageUnits' = BoundImageUnits(currentTextureIdx',
                                                                1 - currentTextureIdx')
          /\ pc = "flip" =>
                /\ currentTextureIdx' = 1 - currentTextureIdx
                /\ textures' = textures
                /\ loadView' = loadView
                /\ fetchView' = fetchView
          /\ currentTextureIdx' # currentTextureIdx => pc \in {"constructor", "flip"}
          /\ pc' # "constructor" => currentTextureIdx' = Swaps' % 2]_vars

\* C11 witness: the second swap of a run has made textures[0] current again,
\* the step before it having read textures[1] and written textures[0], with
\* grids that differ.
C11_Witness ==
    /\ glLoaded
    /\ pc = "renderFrame"
    /\ frame = 2
    /\ currentTextureIdx = 0
    /\ imageUnits = BoundImageUnits(1, 0)
    /\ textures[0] # textures[1]

\* The last dispatch stored to every cell of the grid exactly once and to no
\* position outside the grid.
DispatchCoversGrid ==
    \A p \in DOMAIN storeCount :
        storeCount[p] = IF p \in Pos(GridSize) THEN 1 ELSE 0

\* C12 (Spec): whenever a draw has sampled the current grid, the step before
\* it raised no error, its dispatch of ceil(W/LocalSize) x ceil(H/LocalSize)
\* work groups stored to every cell of the grid exactly once and to no position
\* outside it, and every pixel shows the value that step stored in its cell.
C12_NoPartialGeneration ==
    (drawn.status = "sampled" /\ Initialized) =>
        /\ ~stepErr
        /\ DispatchCoversGrid
        /\ \A p \in Pos(GridSize) :
             drawn.image.data[p] = textures[currentTextureIdx].data[p]

\* The dispatch geometry alone: a dispatch that raised no error on two
\* allocated grids stored to every cell exactly once and nowhere else.
C12_DispatchGeometry ==
    (pc \in {"barrier", "flip", "renderFrame", "present", "poll"} /\ ~stepErr /\ Initialized)
        => DispatchCoversGrid

\* C13 (SpecPattern): when the grid that was current on entry to a computeStep
\* holds a 2 x 2 block of ALIVE cells at any position of the torus and only
\* DEAD cells elsewhere, the grid that is current after the step has the same
\* contents.
C13_BlockStill ==
    (frame >= 1 /\ IsShape(pre.textures[pre.idx], Block)) =>
        /\ currentTextureIdx = 1 - pre.idx
        /\ textures[currentTextureIdx] = pre.textures[pre.idx]

\* C13 witness: one step on a block that wraps around both edges of the torus.
C13_Witness ==
    /\ pc = "pattern"
    /\ frame = 1
    /\ seeded = Pattern(Translate(Block, <<PatternDim - 1, PatternDim - 1>>, PatternSize),
                        PatternSize)
    /\ textures[currentTextureIdx] = seeded
    /\ currentTextureIdx = 1 - pre.idx

\* The blinker: three ALIVE cells in a row or in a column.
IsBlinker(img) == IsShape(img, BlinkerH) \/ IsShape(img, BlinkerV)

\* C14 (SpecPattern): seeded with a blinker, horizontal or vertical, at any
\* position, the current grid differs from the seed after 1 computeStep and
\* equals it after 2, and after 2 steps the current grid is again the texture
\* that held the seed.
C14_BlinkerPeriod ==
    IsBlinker(seeded) =>
        /\ frame = 1 => /\ textures[currentTextureIdx] # seeded
                        /\ IsBlinker(textures[currentTextureIdx])
        /\ frame = 2 => /\ textures[currentTextureIdx] = seeded
                        /\ currentTextureIdx = 1 - pre.idx
                        /\ pre.textures[currentTextureIdx] = seeded

\* C14 witness: two steps on a horizontal blinker that wraps around the right
\* edge, seeded in textures[1].
C14_Witness ==
    /\ pc = "pattern"
    /\ frame = 2
    /\ seeded = Pattern(Translate(BlinkerH, <<PatternDim - 1, 0>>, PatternSize), PatternSize)
    /\ currentTextureIdx = 1
    /\ textures[1] = seeded
    /\ textures[0] # seeded

\* C15 (SpecPattern): seeded with a glider at position o (any position of the
\* torus; the glider that heads towards +x, +y), after 4 computeStep calls the
\* current grid holds the glider at o + (1, 1), wrapped around the torus, and
\* only DEAD cells elsewhere; after fewer steps it does not.
C15_GliderTranslates ==
    \A o \in Pos(PatternSize) :
        seeded = Pattern(Translate(Glider, o, PatternSize), PatternSize) =>
            LET moved == Pattern(Translate(Translate(Glider, o, PatternSize), <<1, 1>>,
                                           PatternSize), PatternSize)
            IN  /\ frame = 4 => textures[currentTextureIdx] = moved
                /\ frame \in 0 .. 3 => textures[currentTextureIdx] # moved

\* C15 witness: four steps on a glider whose translation crosses the right and
\* the bottom edge of the torus.
C15_Witness ==
    /\ pc = "pattern"
    /\ frame = 4
    /\ seeded = Pattern(Translate(Glider, <<PatternDim - 3, PatternDim - 3>>, PatternSize),
                        PatternSize)
    /\ textures[currentTextureIdx] =
         Pattern(Translate(Glider, <<PatternDim - 2, PatternDim - 2>>, PatternSize),
                 PatternSize)
    /\ textures[currentTextureIdx] # seeded

\* C16 (Spec): from initializeGrid on, a step of computeStep leaves the grid
\* that is current on entry (the one bound for reading) unchanged; a step of
\* renderFrame changes no grid and not currentTextureIdx; a grid's contents
\* change only in initializeGrid (textures[0]) and in the dispatch of
\* computeStep (the writable grid); and no grid ever changes its size.
C16_FrameEffects ==
    [][pc # "constructor" =>
          /\ (pc = "computeStep" /\ glLoaded) =>
                /\ imageUnits'.bound => imageUnits'.read = currentTextureIdx
                /\ textures'[currentTextureIdx] = textures[currentTextureIdx]
          /\ pc \in {"barrier", "flip"} => textures' = textures
          /\ pc \in {"renderFrame", "present", "poll"} =>
                /\ textures' = textures
                /\ currentTextureIdx' = currentTextureIdx
          /\ \A i \in 0 .. 1 :
                /\ textures'[i] # textures[i] =>
                      \/ pc = "initializeGrid" /\ i = 0
                      \/ pc = "computeStep" /\ i = 1 - currentTextureIdx
                /\ textures'[i].size = textures[i].size]_vars

\* C16 witness: the second frame has stepped and drawn: the step wrote the
\* writable grid and left the grid it read as it was.
C16_Witness ==
    /\ pc = "poll"
    /\ frame = 2
    /\ Initialized
    /\ drawn.status = "sampled"
    /\ textures[pre.idx] = pre.textures[pre.idx]
    /\ textures[1 - pre.idx] # pre.textures[1 - pre.idx]
    /\ currentTextureIdx = 1 - pre.idx

\* C17 (Spec): once initializeGrid has seeded textures[0] of two allocated
\* grids, in every state every cell of the current grid holds 0 or 255, so
\* that reading it back through the midpoint threshold gives the value written.
C17_CurrentGridBinary ==
    (Initialized /\ pc \notin {"constructor", "initializeGrid"}) =>
        \A p \in Pos(GridSize) :
            /\ textures[currentTextureIdx].data[p] \in {0, 255}
            /\ RefAlive(textures[currentTextureIdx].data[p])
                  = (textures[currentTextureIdx].data[p] = 255)

\* No GL call of the run has reported an error and nothing failed to build or
\* to allocate: no diagnostic has been written.
NoBackendErrors == Initialized /\ log = {}

\* C18 (Spec): with no backend errors, what the draw of frame n samples is, at
\* every pixel, generation n of the seeded grid: the rule of the Game of Life
\* on the torus applied n times to it (so frame 1 shows generation 1, not the
\* seed, and frame n + 1 shows the next generation).
C18_DrawnGeneration ==
    (NoBackendErrors /\ drawn.status = "sampled") =>
        drawn.image = RefIterate(seeded, frame)

\* The memory of the grid the draw of frame n binds, with no backend errors,
\* holds generation n of the seeded grid.
C18_GridMemory ==
    (NoBackendErrors /\ pc \in {"renderFrame", "present", "poll"}) =>
        textures[currentTextureIdx] = RefIterate(seeded, frame)

\* The vertex mapping as the claim states it: indices 0..3, index i at texture
\* coordinate (i mod 2, i div 2) and clip position 2 * coordinate - 1, the
\* four distinct corners in the order (-1,-1), (1,-1), (-1,1), (1,1), and the
\* strip made of the triangles 0-1-2 and 1-2-3, which cover every pixel centre.
VertexMappingAsStated ==
    /\ VertexIDs = 0 .. 3
    /\ \A i \in VertexIDs :
         /\ TexCoord(i) = <<i % 2, i \div 2>>
         /\ ClipPosition(i) = <<2 * (i % 2) - 1, 2 * (i \div 2) - 1>>
    /\ <<ClipPosition(0), ClipPosition(1), ClipPosition(2), ClipPosition(3)>>
         = << <<-1, -1>>, <<1, -1>>, <<-1, 1>>, <<1, 1>> >>
    /\ Cardinality({ClipPosition(i) : i \in VertexIDs}) = 4
    /\ StripTriangles = {<<0, 1, 2>>, <<1, 2, 3>>}
    /\ \A p \in Pos(GridSize) : \E t \in StripTriangles : Covers(t, p)

\* Every pixel fetches the texel of its own position.
OneToOne == [p \in Pos(GridSize) |-> p]

\* C19 (Spec): the draw uses the vertex indices 0..3 and nothing else; index i
\* has texture coordinate (i mod 2, i div 2) and clip position 2 * coordinate
\* - 1; the four positions are the four distinct corners (-1,-1), (1,-1),
\* (-1,1), (1,1); the strip is the triangles 0-1-2 and 1-2-3; and in every
\* draw every pixel of the viewport is covered and fetches the texel of its
\* own position, so each corner of the viewport shows the matching corner of
\* the grid.
C19_FullScreenStrip ==
    /\ VertexMappingAsStated
    /\ drawn.status = "sampled" => drawn.texel = OneToOne

\* C19 witness: a draw has rasterized the strip: the four corner pixels of the
\* viewport fetched the four corner texels of the grid.
C19_Witness ==
    /\ pc = "present"
    /\ drawn.status = "sampled"
    /\ \A x \in {0, WIDTH - 1}, y \in {0, HEIGHT - 1} : drawn.texel[<<x, y>>] = <<x, y>>

====
